---- MODULE Spec2Model ----
(***************************************************************************)
(* Overlay / symbol-pruning engine of the goroot package: SymbolFilter     *)
(* (Collect, Prune, placeholder), the astTransformer chain, and the        *)
(* processSource pipeline (loadAST, writeAST, copyUnmodified).             *)
(*                                                                         *)
(* A file tree is a record [Name, Decls, Comments]; Decls is the ordered   *)
(* list f.Decls, every GenDecl owns its ordered list Specs.  token.Pos is  *)
(* an integer.  astutil.Apply is modelled as the index/step iteration it   *)
(* performs over f.Decls and GenDecl.Specs, with Cursor.Delete removing    *)
(* the current element and decrementing the step.                          *)
(***************************************************************************)
EXTENDS Integers, Sequences, FiniteSets, TLC

VARIABLES
    FileSet,    \* SymbolFilter.FileSet: nil, or the set the files are parsed with
    WillPrune,  \* SymbolFilter.WillPrune: Symbol Key -> token.Pos
    f,          \* the *ast.File the last operation worked on
    f0,         \* the same tree as it was before the last operation
    ret,        \* what the last operation returned
    op,         \* the last operation
    visited,    \* number of declaration/spec nodes the last traversal visited
    calls,      \* transforms invoked by the last operation, in order
    disk,       \* output file system: path -> file entry
    disk0,      \* the output file system before the last operation
    io,         \* inputs of the last processSource call
    ncalls,     \* number of processSource calls made
    procs       \* concurrent processSource calls: where each is and what it did

vars == <<FileSet, WillPrune, f, f0, ret, op, visited, calls, disk, disk0, io, ncalls, procs>>

-----------------------------------------------------------------------------
(* Bounds of the input domain *)

MaxDecls == 2   \* top-level declarations per file
MaxSpecs == 2   \* specs per declaration group
MaxNames == 2   \* names per var/const spec
MaxCalls == 2   \* processSource calls per run of the pipeline

-----------------------------------------------------------------------------
(* Syntax trees *)

NoRecv == <<>>

\* A function body is the list of its statements; the empty body is `{}`.
BlockStmt(list) == [kind |-> "BlockStmt", List |-> list]

\* A declaration inside a function body.
DeclStmt(decl) == [kind |-> "DeclStmt", Decl |-> decl]

FuncDecl(name, recv) ==
    [kind |-> "FuncDecl", Tok |-> "func", Name |-> name, Recv |-> recv,
     Specs |-> <<>>, Body |-> BlockStmt(<<>>), Pos |-> 0]

GenDecl(tok, specs) ==
    [kind |-> "GenDecl", Tok |-> tok, Name |-> "", Recv |-> NoRecv,
     Specs |-> specs, Body |-> BlockStmt(<<>>), Pos |-> 0]

\* Type expressions: a named type, a struct with its fields, an interface
\* with its methods.
Field(name) == [kind |-> "Field", Names |-> <<name>>]
NamedType(name) == [kind |-> "Ident", Name |-> name]
StructType(fields) == [kind |-> "StructType", Fields |-> fields]
InterfaceType(methods) == [kind |-> "InterfaceType", Fields |-> methods]
NoType == [kind |-> "nil"]

\* A string literal as written in the source: its quote character and the
\* text between the quotes.
Lit(quote, text) == [quote |-> quote, text |-> text]
NoPath == Lit("", "")

ValueSpec(names, values) ==
    [kind |-> "ValueSpec", Names |-> names, Values |-> values, Path |-> NoPath,
     Type |-> NoType, Assign |-> FALSE, Pos |-> 0]

\* `type name int`; Assign is set for an alias declaration, `type name = T`.
TypeSpec(name) ==
    [kind |-> "TypeSpec", Names |-> <<name>>, Values |-> <<>>, Path |-> NoPath,
     Type |-> NamedType("int"), Assign |-> FALSE, Pos |-> 0]

\* alias is <<>> when spec.Name is nil, <<name>> otherwise.
ImportSpec(alias, path) ==
    [kind |-> "ImportSpec", Names |-> alias, Values |-> <<>>, Path |-> path,
     Type |-> NoType, Assign |-> FALSE, Pos |-> 0]

Ident(name) == [kind |-> "Ident", Name |-> name]

SeqsUpTo(S, lo, hi) == UNION {[1..n -> S] : n \in lo..hi}

NoDup(s) == \A i, j \in 1..Len(s) : i # j => s[i] # s[j]

RECURSIVE Flatten(_)
Flatten(ss) == IF ss = <<>> THEN <<>> ELSE Head(ss) \o Flatten(Tail(ss))

ValueNames == {"V1", "V2"}
TypeNames == {"T", "U"}

\* `var a, b = f()` binds two names to one initializer; otherwise one
\* initializer per name.
ValueSpecPool ==
    {ValueSpec(ns, IF Len(ns) > 1 THEN <<"f()">> ELSE <<"1">>) :
        ns \in {s \in SeqsUpTo(ValueNames, 1, MaxNames) : NoDup(s)}}

SpecNames(specs) == Flatten([i \in 1..Len(specs) |-> specs[i].Names])

ValueGroups(tok) ==
    {GenDecl(tok, ss) : ss \in {s \in SeqsUpTo(ValueSpecPool, 0, MaxSpecs) : NoDup(SpecNames(s))}}

TypeGroups ==
    {GenDecl("type", ss) :
        ss \in {s \in SeqsUpTo({TypeSpec(n) : n \in TypeNames}, 0, MaxSpecs) : NoDup(SpecNames(s))}}

ImportGroups ==
    {GenDecl("import", <<>>),
     GenDecl("import", <<ImportSpec(<<>>, Lit("\"", "sync"))>>)}

FuncDecls ==
    {FuncDecl("F", NoRecv),
     FuncDecl("M", <<[star |-> FALSE, ident |-> "T"]>>),
     FuncDecl("M", <<[star |-> TRUE, ident |-> "T"]>>)}

DeclPool == FuncDecls \cup TypeGroups \cup ValueGroups("var") \cup ValueGroups("const")
                \cup ImportGroups

\* The symbols a declaration declares, for well-formedness of a source file.
DeclSymbols(d) ==
    IF d.kind = "FuncDecl"
    THEN <<IF d.Recv = NoRecv THEN d.Name ELSE d.Recv[1].ident \o "." \o d.Name>>
    ELSE IF d.Tok = "import" THEN <<>> ELSE SpecNames(d.Specs)

\* Source files: declaration lists of a well-formed package (no symbol is
\* declared twice).
Sources ==
    {s \in SeqsUpTo(DeclPool, 0, MaxDecls) :
        NoDup(Flatten([i \in 1..Len(s) |-> DeclSymbols(s[i])]))}

\* parser.ParseFile: builds the tree and gives every node its position.
PosSpecs(specs, base) ==
    [j \in 1..Len(specs) |-> [specs[j] EXCEPT !.Pos = base + 10 * j]]

\* base is the offset of the file in the FileSet.
ParseFile(pkg, src, base) ==
    [Name |-> pkg,
     Decls |-> [i \in 1..Len(src) |->
                  [src[i] EXCEPT !.Pos = base + 100 * i,
                                 !.Specs = PosSpecs(src[i].Specs, base + 100 * i)]],
     Comments |-> <<>>]

NoTree == [Name |-> "", Decls |-> <<>>, Comments |-> <<>>]

Trees == {ParseFile("x", s, 0) : s \in Sources}

-----------------------------------------------------------------------------
(* SymbolFilter *)

\* len(sf.WillPrune) == 0; true of the nil map of a fresh SymbolFilter too.
IsEmpty(sf) == DOMAIN sf.WillPrune = {}

\* A SymbolFilter value: sf.FileSet and sf.WillPrune.
NoFileSet == "nil"
FileSets == {NoFileSet, "fset"}
SymbolFilter(fset, table) == [FileSet |-> fset, WillPrune |-> table]

\* funcName that keeps the star of a pointer receiver in the name.
funcName_KeepStar(d) ==
    IF d.Recv = NoRecv THEN d.Name
    ELSE (IF d.Recv[1].star THEN "*" ELSE "") \o d.Recv[1].ident \o "." \o d.Name

\* The receiver type is unwrapped from a pointer: (T) and (*T) give "T.M".
funcName(d) ==
    IF d.Recv = NoRecv THEN d.Name ELSE d.Recv[1].ident \o "." \o d.Name

key(file, n) ==
    CASE n.kind = "TypeSpec" -> file.Name \o "." \o n.Names[1]
      [] n.kind = "FuncDecl" -> file.Name \o "." \o funcName(n)
      [] n.kind = "Ident"    -> file.Name \o "." \o n.Name

\* Every file added to a FileSet gets a base beyond the files before it.
FileSize == 1000

\* FileSet.Position: the overlay file is registered after the upstream file.
Position(pos) ==
    [Filename |-> IF pos < FileSize THEN "example.go"
                  ELSE IF pos < 2 * FileSize THEN "overlay.go"
                  ELSE "overlay_next.go",
     Offset |-> pos % FileSize]

\* token.Position{}, printed as "-".
NoPosition == [Filename |-> "", Offset |-> 0]

\* sf.position: the empty position when the filter has no FileSet.
position(sf, pos) == IF sf.FileSet = NoFileSet THEN NoPosition ELSE Position(pos)

\* The comment text is "// <node> - GopherJS replacement at <position>",
\* where <node> prints the declaration without body, value or type.
placeholder(sf, tok, recv, name, origPos, replPos) ==
    [Slash |-> origPos,
     Text |-> [tok |-> tok, recv |-> recv, name |-> name, repl |-> position(sf, replPos)]]

RemoveAt(list, index) ==
    [k \in 1..(Len(list) - 1) |-> IF k < index THEN list[k] ELSE list[k + 1]]

\* Cursor.Delete: removes the current element of the containing slice and
\* decrements the iteration step, so the next element is not skipped.
Delete(list, index, step) == [list |-> RemoveAt(list, index), step |-> step - 1]

\* A cursor is [list, index, step, Comments, pruned, visited]: the slice being
\* iterated, the iterator of applyList, and f.Comments, pruned and the number
\* of visited nodes so far.
Deleted(cur, del) == [cur EXCEPT !.list = del.list, !.step = del.step]

\* c.Delete()
deleteCurrent(cur) == Deleted(cur, Delete(cur.list, cur.index, cur.step))

\* appendComment that starts the comment list anew.
appendComment_Replace(cur, comment) ==
    [cur EXCEPT !.Comments = <<comment>>, !.pruned = TRUE]

\* f.Comments = append(f.Comments, comment); pruned = true
appendComment(cur, comment) ==
    [cur EXCEPT !.Comments = Append(cur.Comments, comment), !.pruned = TRUE]

\* case *ast.ValueSpec: the loop over node.Names.
\* st = [Names, Comments, remaining, pruned]
RECURSIVE pruneNames(_, _, _, _, _, _)
pruneNames(sf, file, parent, node, st, i) ==
    IF i > Len(node.Names) THEN st
    ELSE IF key(file, Ident(node.Names[i])) \in DOMAIN sf.WillPrune
         THEN pruneNames(sf, file, parent, node,
                  [Names |-> [st.Names EXCEPT ![i] = "_"],
                   Comments |-> Append(st.Comments,
                       placeholder(sf, parent.Tok, NoRecv, node.Names[i], parent.Pos - 1,
                                   sf.WillPrune[key(file, Ident(node.Names[i]))])),
                   remaining |-> st.remaining - 1,
                   pruned |-> TRUE], i + 1)
         ELSE pruneNames(sf, file, parent, node, st, i + 1)

\* The cursor with the names loop's writes applied to the current spec.
blanked(cur, r) ==
    [cur EXCEPT !.list[cur.index].Names = r.Names,
                !.Comments = r.Comments, !.pruned = r.pruned]

\* visitValueSpec with the spec removed as soon as one of its names matches.
valueSpecDone_DeleteOnAnyMatch(cur, r) ==
    IF r.remaining < Len(r.Names) THEN deleteCurrent(blanked(cur, r)) ELSE blanked(cur, r)

\* visitValueSpec with the matched names blanked and the spec always kept.
valueSpecDone_KeepBlank(cur, r) == blanked(cur, r)

\* if remaining == 0 { c.Delete() }
valueSpecDone(cur, r) ==
    IF r.remaining = 0 THEN deleteCurrent(blanked(cur, r)) ELSE blanked(cur, r)

\* visitNode, case *ast.ValueSpec.
visitValueSpec(sf, file, parent, cur) ==
    valueSpecDone(cur,
        pruneNames(sf, file, parent, cur.list[cur.index],
            [Names |-> cur.list[cur.index].Names, Comments |-> cur.Comments,
             remaining |-> Len(cur.list[cur.index].Names), pruned |-> cur.pruned], 1))

\* visitNode, case *ast.TypeSpec.
visitTypeSpec(sf, file, parent, cur) ==
    IF key(file, cur.list[cur.index]) \in DOMAIN sf.WillPrune
    THEN deleteCurrent(appendComment(cur,
             placeholder(sf, "type", NoRecv, cur.list[cur.index].Names[1], parent.Pos - 1,
                         sf.WillPrune[key(file, cur.list[cur.index])])))
    ELSE cur

\* visitFuncDecl with the placeholder appended and the c.Delete() left out.
visitFuncDecl_NoDelete(sf, file, cur) ==
    IF key(file, cur.list[cur.index]) \in DOMAIN sf.WillPrune
    THEN appendComment(cur,
             placeholder(sf, "func", cur.list[cur.index].Recv, cur.list[cur.index].Name,
                         cur.list[cur.index].Pos, sf.WillPrune[key(file, cur.list[cur.index])]))
    ELSE cur

\* visitNode, case *ast.FuncDecl.
visitFuncDecl(sf, file, cur) ==
    IF key(file, cur.list[cur.index]) \in DOMAIN sf.WillPrune
    THEN deleteCurrent(appendComment(cur,
             placeholder(sf, "func", cur.list[cur.index].Recv, cur.list[cur.index].Name,
                         cur.list[cur.index].Pos, sf.WillPrune[key(file, cur.list[cur.index])])))
    ELSE cur

\* visitNode on a child of a GenDecl; import specs are never reached.
visitSpec(sf, file, parent, cur) ==
    CASE cur.list[cur.index].kind = "ValueSpec" -> visitValueSpec(sf, file, parent, cur)
      [] cur.list[cur.index].kind = "TypeSpec"  -> visitTypeSpec(sf, file, parent, cur)
      [] OTHER -> cur

\* a.iter.index += a.iter.step, after the callbacks for one element.
advance(c) == [c EXCEPT !.index = c.index + c.step, !.visited = c.visited + 1]

\* applyList(n, "Specs") of astutil.Apply under visitNode.
RECURSIVE applySpecs(_, _, _, _)
applySpecs(sf, file, parent, cur) ==
    IF cur.index > Len(cur.list) THEN cur
    ELSE applySpecs(sf, file, parent,
             advance(visitSpec(sf, file, parent, [cur EXCEPT !.step = 1])))

\* pruneEmptyDecls that keeps emptied groups.
pruneEmptyDecls_Keep(cur) == cur

\* The post-order callback; it runs for the nodes visitNode returned true for.
pruneEmptyDecls(cur) ==
    IF cur.list[cur.index].kind = "GenDecl" /\ Len(cur.list[cur.index].Specs) = 0
    THEN deleteCurrent(cur)
    ELSE cur

\* The iterator over the specs of the declaration the cursor is at.
specCursor(cur) ==
    [list |-> cur.list[cur.index].Specs, index |-> 1, step |-> 1,
     Comments |-> cur.Comments, pruned |-> cur.pruned, visited |-> cur.visited]

\* The declaration cursor after its specs were walked.
walked(cur, inner) ==
    [cur EXCEPT !.list[cur.index].Specs = inner.list,
                !.Comments = inner.Comments,
                !.pruned = inner.pruned,
                !.visited = inner.visited]

\* visitNode, the children and pruneEmptyDecls for one element of f.Decls.
applyDecl(sf, file, cur) ==
    CASE cur.list[cur.index].kind = "FuncDecl" -> visitFuncDecl(sf, file, cur)
      [] cur.list[cur.index].kind = "GenDecl" /\ cur.list[cur.index].Tok = "import" -> cur
      [] OTHER ->
           pruneEmptyDecls(
               walked(cur, applySpecs(sf, file, cur.list[cur.index], specCursor(cur))))

\* applyList(f, "Decls") of astutil.Apply.
RECURSIVE applyDecls(_, _, _)
applyDecls(sf, file, cur) ==
    IF cur.index > Len(cur.list) THEN cur
    ELSE applyDecls(sf, file, advance(applyDecl(sf, file, [cur EXCEPT !.step = 1])))

fileCursor(file) ==
    [list |-> file.Decls, index |-> 1, step |-> 1,
     Comments |-> file.Comments, pruned |-> FALSE, visited |-> 0]

\* The tree after astutil.Apply, and `return pruned`.
\* The filter is only read: sf is what it was.
pruneResult(sf, file, c) ==
    [f |-> [file EXCEPT !.Decls = c.list, !.Comments = c.Comments],
     ret |-> c.pruned, visited |-> c.visited, sf |-> sf]

\* Prune without the IsEmpty early return.
Prune_NoFastPath(sf, file) ==
    pruneResult(sf, file, applyDecls(sf, file, fileCursor(file)))

\* SymbolFilter.Prune: the result is the tree after the call, the value
\* returned, the number of declaration and spec nodes visited and the filter
\* after the call.
Prune(sf, file) ==
    IF IsEmpty(sf)
    THEN [f |-> file, ret |-> FALSE, visited |-> 0, sf |-> sf]
    ELSE pruneResult(sf, file, applyDecls(sf, file, fileCursor(file)))

\* Put that keeps the position a key already has.
Put_KeepFirst(sf, k, pos) ==
    [sf EXCEPT !.WillPrune =
        [x \in DOMAIN sf.WillPrune \cup {k} |->
            IF x \in DOMAIN sf.WillPrune THEN sf.WillPrune[x] ELSE pos]]

\* sf.WillPrune[k] = pos
Put(sf, k, pos) ==
    [sf EXCEPT !.WillPrune =
        [x \in DOMAIN sf.WillPrune \cup {k} |-> IF x = k THEN pos ELSE sf.WillPrune[x]]]

\* case *ast.ValueSpec of collectName: one entry per name, at the name's
\* position (the k-th name of a spec follows the spec's position).
RECURSIVE collectNames(_, _, _, _)
collectNames(sf, file, node, i) ==
    IF i > Len(node.Names) THEN sf
    ELSE collectNames(Put(sf, key(file, Ident(node.Names[i])), node.Pos + (i - 1)),
                      file, node, i + 1)

\* collectName: what the callback does at one node, and the value it returns
\* (true: astutil.Apply goes on to the node's children).
collectName_DescendAll(sf, file, node) ==
    CASE node.kind = "ValueSpec" ->
            [sf |-> collectNames(sf, file, node, 1), descend |-> TRUE]
      [] node.kind = "TypeSpec" ->
            [sf |-> Put(sf, key(file, node), node.Pos), descend |-> TRUE]
      [] node.kind = "FuncDecl" ->
            [sf |-> Put(sf, key(file, node), node.Pos), descend |-> TRUE]
      [] OTHER -> [sf |-> sf, descend |-> TRUE]

collectName(sf, file, node) ==
    CASE node.kind = "GenDecl" -> [sf |-> sf, descend |-> node.Tok # "import"]
      [] node.kind = "ValueSpec" ->
            [sf |-> collectNames(sf, file, node, 1), descend |-> FALSE]
      [] node.kind = "TypeSpec" ->
            [sf |-> Put(sf, key(file, node), node.Pos), descend |-> FALSE]
      [] node.kind = "FuncDecl" ->
            [sf |-> Put(sf, key(file, node), node.Pos), descend |-> FALSE]
      [] OTHER -> [sf |-> sf, descend |-> FALSE]

\* The children astutil.Apply walks, in its order; identifiers, field lists
\* and expressions without declarations inside are leaves here.
Children(node) ==
    CASE node.kind = "GenDecl" -> node.Specs
      [] node.kind = "FuncDecl" -> <<node.Body>>
      [] node.kind = "BlockStmt" -> node.List
      [] node.kind = "DeclStmt" -> <<node.Decl>>
      [] node.kind = "TypeSpec" -> <<node.Type>>
      [] node.kind \in {"StructType", "InterfaceType"} -> node.Fields
      [] OTHER -> <<>>

\* astutil.Apply(f, collectName, nil) over a list of nodes and, where the
\* callback returned true, over their children.
RECURSIVE applyCollect(_, _, _, _)
RECURSIVE collectChildren(_, _, _)
applyCollect(sf, file, list, i) ==
    IF i > Len(list) THEN sf
    ELSE applyCollect(collectChildren(file, list[i], collectName(sf, file, list[i])),
                      file, list, i + 1)

collectChildren(file, node, r) ==
    IF r.descend THEN applyCollect(r.sf, file, Children(node), 1) ELSE r.sf

\* Collect that reports a change when it recorded a symbol.
Collect_ReportsCollected(sf, file) ==
    [sf |-> applyCollect(sf, file, file.Decls, 1), f |-> file,
     ret |-> applyCollect(sf, file, file.Decls, 1) # sf]

\* SymbolFilter.Collect: the result is the table after the call, the tree
\* after the call and the value returned.  The callback never writes to the
\* tree and returns true for the root.
Collect(sf, file) ==
    [sf |-> applyCollect(sf, file, file.Decls, 1), f |-> file, ret |-> FALSE]

-----------------------------------------------------------------------------
(* nosync *)

NosyncPath == Lit("\"", "github.com/gopherjs/gopherjs/nosync")

\* The quote character of a raw string literal (U+0060), by name.
BackQuote == "backquote"

\* The escape sequences of an interpreted string literal, for the literals
\* of the model: \x73 is the letter s.
Unescape(text) == IF text = "\\x73ync" THEN "sync" ELSE text

\* strconv.Unquote of spec.Path.Value: a raw literal is its text as written,
\* an interpreted one has its escapes replaced, anything else is an error,
\* which nosync drops, keeping the empty string.
Unquote(lit) ==
    CASE lit.quote = BackQuote -> lit.text
      [] lit.quote = "\"" -> Unescape(lit.text)
      [] OTHER -> ""

\* nosyncSpec that leaves spec.Name nil.
nosyncSpec_NoAlias(spec) ==
    IF Unquote(spec.Path) = "sync" THEN [spec EXCEPT !.Path = NosyncPath] ELSE spec

\* nosyncSpec that redirects every import named sync, whatever its path.
nosyncSpec_ByName(spec) ==
    IF Unquote(spec.Path) = "sync" \/ spec.Names = <<"sync">>
    THEN [spec EXCEPT !.Names = IF spec.Names = <<>> THEN <<"sync">> ELSE spec.Names,
                      !.Path = NosyncPath]
    ELSE spec

nosyncSpec(spec) ==
    IF Unquote(spec.Path) = "sync"
    THEN [spec EXCEPT !.Names = IF spec.Names = <<>> THEN <<"sync">> ELSE spec.Names,
                      !.Path = NosyncPath]
    ELSE spec

\* f.Imports holds the import specs of the file's import declarations.
nosyncDecl(d) ==
    IF d.kind = "GenDecl" /\ d.Tok = "import"
    THEN [d EXCEPT !.Specs = [j \in 1..Len(d.Specs) |-> nosyncSpec(d.Specs[j])]]
    ELSE d

nosync(file) ==
    [f |-> [file EXCEPT !.Decls = [i \in 1..Len(file.Decls) |-> nosyncDecl(file.Decls[i])]],
     ret |-> \E i \in 1..Len(file.Decls) :
                /\ file.Decls[i].kind = "GenDecl" /\ file.Decls[i].Tok = "import"
                /\ \E j \in 1..Len(file.Decls[i].Specs) :
                      Unquote(file.Decls[i].Specs[j].Path) = "sync"]

-----------------------------------------------------------------------------
(* astTransformer *)

\* identity is a trivial astTransformer that does nothing.
identity(file) == [f |-> file, ret |-> FALSE]

BaseTransforms == {"identity", "nosync", "Prune", "Collect"}

\* What a transformer that works on the tree leaves: [f, sf, ret].
treeResult(r, sf) == [f |-> r.f, sf |-> sf, ret |-> r.ret]

\* What Prune leaves.
pruned(r) == treeResult(r, r.sf)

\* What Collect leaves: the tree as it was and the table.
tableResult(r, file) == [f |-> r.f, sf |-> r.sf, ret |-> r.ret]

\* The call is appended to st.calls with the value it returned.
called(name, st, r) ==
    [f |-> r.f, sf |-> r.sf,
     calls |-> Append(st.calls, [name |-> name, ret |-> r.ret]),
     modified |-> r.ret]

\* One call of a transformer on st = [f, sf, calls].
invoke(name, st) ==
    called(name, st,
        CASE name = "identity" -> treeResult(identity(st.f), st.sf)
          [] name = "nosync"   -> treeResult(nosync(st.f), st.sf)
          [] name = "Prune"    -> pruned(Prune(st.sf, st.f))
          [] name = "Collect"  -> tableResult(Collect(st.sf, st.f), st.f))

\* modified = modified || right(fset, f): Go evaluates the right operand only
\* when the left one is false.
orRight(right, l) ==
    IF l.modified
    THEN l
    ELSE invoke(right, [f |-> l.f, sf |-> l.sf, calls |-> l.calls])

\* The transformer left.chain(right) applied to st.
chain(left, right, st) == orRight(right, invoke(left, st))

\* A transformer handed to processSource is <<t>> for a plain transformer t
\* and <<l, r>> for l.chain(r).
Transforms == SeqsUpTo(BaseTransforms, 1, 2)

transform(t, st) ==
    IF Len(t) = 1 THEN invoke(t[1], st) ELSE chain(t[1], t[2], st)

-----------------------------------------------------------------------------
(* Symbol tables as TestSymbolFilterPrune's filter(names...) builds them *)

KeyUniverse == {"x.F", "x.T.M", "x.T", "x.V1", "x.V2", "x.Other"}

Tables == UNION {[K -> {1010}] : K \in SUBSET KeyUniverse}

NoDisk == <<>>
NoIO == <<>>
NoProcs == <<>>

\* The comments of a parsed file: none, or one ahead of the package clause.
Commented(tree) == [tree EXCEPT !.Comments = <<[Slash |-> 1, Text |-> "// doc"]>>]

Init ==
    /\ FileSet \in FileSets
    /\ WillPrune \in Tables
    /\ f \in Trees \cup {Commented(t) : t \in Trees}
    /\ f0 = f
    /\ ret = FALSE
    /\ op = "ParseFile"
    /\ visited = 0
    /\ calls = <<>>
    /\ disk = NoDisk
    /\ disk0 = NoDisk
    /\ io = NoIO
    /\ ncalls = 0
    /\ procs = NoProcs

DoPrune ==
    /\ \E r \in {Prune(SymbolFilter(FileSet, WillPrune), f)} :
        /\ f' = r.f
        /\ ret' = r.ret
        /\ visited' = r.visited
        /\ WillPrune' = r.sf.WillPrune
    /\ f0' = f
    /\ op' = "Prune"
    /\ calls' = <<"Prune">>
    /\ UNCHANGED <<FileSet, disk, disk0, io, ncalls, procs>>

Next == DoPrune

Spec == Init /\ [][Next]_vars

-----------------------------------------------------------------------------
(* File systems *)

\* File content: the bytes of a source file ("raw"), the printed form of a
\* tree ("fmt") or what was at the destination beforehand ("old"); len is
\* "full" for all of it, "partial" for a proper prefix (possibly empty) that
\* reached the file before a write failed.
Data(form, of, tree, len) == [form |-> form, of |-> of, tree |-> tree, len |-> len]
NoData == Data("none", "", NoTree, "empty")
OldData == Data("old", "", NoTree, "full")
Empty == Data("none", "", NoTree, "empty")

Absent == [kind |-> "absent", data |-> NoData, target |-> ""]
File(data) == [kind |-> "file", data |-> data, target |-> ""]
Symlink(target) == [kind |-> "symlink", data |-> NoData, target |-> target]

LoadPaths == {"a.go", "bad.go", "missing.go"}
WritePaths == {"out/x.go"}

\* filepath.Join(string(realFS), loadPath)
RealPath(loadPath) == "goroot/" \o loadPath
RealPaths == {RealPath(p) : p \in LoadPaths}
Paths == WritePaths \cup RealPaths

\* The declarations written in the well-formed input file a.go:
\*     import "sync"; type (); func F() {}; var V1, V2 = f()
SourceText(path) ==
    <<GenDecl("import", <<ImportSpec(<<>>, Lit("\"", "sync"))>>),
      GenDecl("type", <<>>),
      FuncDecl("F", NoRecv),
      GenDecl("var", <<ValueSpec(<<"V1", "V2">>, <<"f()">>)>>)>>

\* The bytes of the input file at loadPath, in either input file system.
Bytes(path) == Data("raw", path, NoTree, "full")

VirtualFS == [p \in LoadPaths |-> IF p = "missing.go" THEN Absent ELSE File(Bytes(p))]

\* A path with its final symbolic link followed.
Resolve(d, p) == IF d[p].kind = "symlink" THEN d[p].target ELSE p

\* os.Stat(path) returns no IsNotExist error.
Exists(d, p) == d[Resolve(d, p)].kind = "file"

\* os.Create: creates or truncates the file the path leads to.
Create(d, p) == [d EXCEPT ![Resolve(d, p)] = File(Empty)]

\* Bytes written through the handle os.Create returned.
WriteTo(d, p, data) == [d EXCEPT ![Resolve(d, p)] = File(data)]

\* What reading the path gives.
ReadFile(d, p) == d[Resolve(d, p)].data

\* loadFS.Open(loadPath): http.Dir reads the real file system, any other
\* http.FileSystem is virtual.
Open(d, loadFS, loadPath) ==
    IF loadFS = "http.Dir"
    THEN [ok |-> Exists(d, RealPath(loadPath)), data |-> ReadFile(d, RealPath(loadPath))]
    ELSE [ok |-> VirtualFS[loadPath].kind = "file", data |-> VirtualFS[loadPath].data]

LoadFSs == {"http.Dir", "vfs"}

\* Outcomes of the system calls and of format.Node that a call may meet; at
\* most one of them fails per call.
Faults == {"none", "open", "create", "symlink", "format", "flush", "copy"}

\* parser.ParseFile on the bytes read: complete bytes of a well-formed file
\* parse to its tree.
Parse(data) ==
    IF data.form = "raw" /\ data.len = "full" /\ data.of = "a.go"
    THEN [ok |-> TRUE, tree |-> ParseFile("x", SourceText(data.of), 0), err |-> "nil"]
    ELSE [ok |-> FALSE, tree |-> NoTree, err |-> "parse"]

\* loadAST: fs.Open, then parser.ParseFile on what was opened; the error is
\* the one of fs.Open or the one of the parser.
parseOpened(o) ==
    IF ~o.ok THEN [ok |-> FALSE, tree |-> NoTree, err |-> "open"] ELSE Parse(o.data)

loadAST(d, loadFS, loadPath) == parseOpened(Open(d, loadFS, loadPath))

\* writeAST: Stat, Create, then format.Node into the buffered writer with
\* the Flush deferred.  The value returned is format.Node's; the error of the
\* deferred Flush is dropped, and what was written stays in the file.
writeAST(d, path, source, fault) ==
    IF Exists(d, path)
    THEN [disk |-> d, err |-> "exists", serialized |-> FALSE]
    ELSE IF fault = "create"
    THEN [disk |-> d, err |-> "create", serialized |-> FALSE]
    ELSE [disk |-> WriteTo(Create(d, path), path,
                      Data("fmt", "", source,
                           IF fault \in {"format", "flush"} THEN "partial" ELSE "full")),
          err |-> IF fault = "format" THEN "format" ELSE "nil",
          serialized |-> TRUE]

\* copyUnmodified from a virtual file system: Open, Create, io.Copy.
copyFrom(d, writePath, fault, from) ==
    IF ~from.ok \/ fault = "open"
    THEN [disk |-> d, err |-> "open"]
    ELSE IF fault = "create"
    THEN [disk |-> d, err |-> "create"]
    ELSE IF fault = "copy"
    THEN [disk |-> WriteTo(Create(d, writePath), writePath,
                      [from.data EXCEPT !.len = "partial"]),
          err |-> "copy"]
    ELSE [disk |-> WriteTo(Create(d, writePath), writePath, from.data), err |-> "nil"]

\* copyUnmodified: a symlink for http.Dir (os.Symlink fails when writePath
\* exists), otherwise a copy of the bytes.
copyUnmodified(d, loadFS, loadPath, writePath, fault) ==
    IF loadFS = "http.Dir"
    THEN IF d[writePath].kind # "absent"
         THEN [disk |-> d, err |-> "exists"]
         ELSE IF fault = "symlink"
         THEN [disk |-> d, err |-> "symlink"]
         ELSE [disk |-> [d EXCEPT ![writePath] = Symlink(RealPath(loadPath))], err |-> "nil"]
    ELSE copyFrom(d, writePath, fault, Open(d, loadFS, loadPath))

\* What processSource leaves: the file system and the symbol table after the
\* call, the tree before and after the transform, the calls the transform
\* made, the error returned ("nil" for none), and whether the file was
\* loaded, reported modified and serialized.
\* wrap is what fmt.Errorf put around the cause: what failed and the path
\* named in the message.
Wrap(what, path, cause) == [what |-> what, path |-> path, cause |-> cause]

\* return fmt.Errorf("failed to load %q AST: %w", loadPath, err)
loadFailed(d, sf, loadPath, source) ==
    [disk |-> d, sf |-> sf, f0 |-> NoTree, f |-> NoTree, calls |-> <<>>,
     err |-> "load", loaded |-> FALSE, modified |-> FALSE, serialized |-> FALSE,
     wrap |-> Wrap("load", loadPath, source.err)]

\* return copyUnmodified(loadFS, loadPath, writePath)
copied(source, r, c) ==
    [disk |-> c.disk, sf |-> r.sf, f0 |-> source.tree, f |-> r.f,
     calls |-> r.calls, err |-> c.err, loaded |-> TRUE,
     modified |-> r.modified, serialized |-> FALSE,
     wrap |-> Wrap("", "", c.err)]

\* return fmt.Errorf("failed to write %q: %w", writePath, err), or nil
written(writePath, source, r, w) ==
    [disk |-> w.disk, sf |-> r.sf, f0 |-> source.tree, f |-> r.f,
     calls |-> r.calls, err |-> w.err, loaded |-> TRUE,
     modified |-> r.modified, serialized |-> w.serialized,
     wrap |-> IF w.err = "nil" THEN Wrap("", "", "nil") ELSE Wrap("write", writePath, w.err)]

\* processSource that serializes the tree whatever the transform returned.
output_AlwaysSerialize(d, loadFS, loadPath, writePath, fault, source, r) ==
    written(writePath, source, r, writeAST(d, writePath, r.f, fault))

\* if !transform(fset, source) { return copyUnmodified(...) }; writeAST(...)
output(d, loadFS, loadPath, writePath, fault, source, r) ==
    IF ~r.modified
    THEN copied(source, r, copyUnmodified(d, loadFS, loadPath, writePath, fault))
    ELSE written(writePath, source, r, writeAST(d, writePath, r.f, fault))

\* processSource that goes on with the tree loadAST returned without looking
\* at its error.
processLoaded_NoErrorCheck(d, sf, loadFS, loadPath, writePath, t, fault, source) ==
    output(d, loadFS, loadPath, writePath, fault, source,
           transform(t, [f |-> source.tree, sf |-> sf, calls |-> <<>>]))

\* processSource once loadAST has returned.
processLoaded(d, sf, loadFS, loadPath, writePath, t, fault, source) ==
    IF ~source.ok
    THEN loadFailed(d, sf, loadPath, source)
    ELSE output(d, loadFS, loadPath, writePath, fault, source,
                transform(t, [f |-> source.tree, sf |-> sf, calls |-> <<>>]))

processSource(d, sf, loadFS, loadPath, writePath, t, fault) ==
    processLoaded(d, sf, loadFS, loadPath, writePath, t, fault, loadAST(d, loadFS, loadPath))

\* The pipeline: a SymbolFilter with a table of one entry or none, the input
\* files in place, and the destination free or already taken.
IOTables == {[k \in K |-> 1010] : K \in {{}, {"x.F"}, {"x.Other"}}}

InitDisk(taken) ==
    [p \in Paths |->
        IF p \in WritePaths
        THEN CASE taken = "file" -> File(OldData)
               [] taken = "symlink" -> Symlink(RealPath("a.go"))
               [] OTHER -> Absent
        ELSE IF p = RealPath("missing.go") THEN Absent
        ELSE File(Bytes(CHOOSE q \in LoadPaths : RealPath(q) = p))]

InitIO ==
    /\ FileSet = "fset"
    /\ WillPrune \in IOTables
    /\ f = NoTree
    /\ f0 = NoTree
    /\ ret = "nil"
    /\ op = "init"
    /\ visited = 0
    /\ calls = <<>>
    /\ \E taken \in {"free", "file", "symlink"} : disk = InitDisk(taken)
    /\ disk0 = disk
    /\ io = NoIO
    /\ ncalls = 0
    /\ procs = NoProcs

\* The transformers of the pipeline: the import redirector, the pruner, the
\* identity and their chains.
IOTransforms == SeqsUpTo({"identity", "nosync", "Prune"}, 1, 2)

ProcessSource ==
    /\ ncalls < MaxCalls
    /\ ncalls' = ncalls + 1
    /\ UNCHANGED <<FileSet, procs>>
    /\ \E loadFS \in LoadFSs, loadPath \in LoadPaths, writePath \in WritePaths,
       t \in IOTransforms, fault \in Faults :
        \E r \in {processSource(disk, SymbolFilter(FileSet, WillPrune), loadFS, loadPath, writePath, t, fault)} :
        /\ disk' = r.disk
        /\ disk0' = disk
        /\ WillPrune' = r.sf.WillPrune
        /\ f' = r.f
        /\ f0' = r.f0
        /\ calls' = r.calls
        /\ ret' = r.err
        /\ op' = "processSource"
        /\ visited' = 0
        /\ io' = [loadFS |-> loadFS, loadPath |-> loadPath, writePath |-> writePath,
                  transform |-> t, loaded |-> r.loaded,
                  modified |-> r.modified, serialized |-> r.serialized,
                  wrap |-> r.wrap,
                  input |-> Open(disk, loadFS, loadPath).data]

NextIO == ProcessSource

SpecIO == InitIO /\ [][NextIO]_vars

-----------------------------------------------------------------------------
(* Properties of Prune *)

DeclIdx(tree) == 1..Len(tree.Decls)
SpecIdx(d) == 1..Len(d.Specs)

IsGroup(d) == d.kind = "GenDecl" /\ d.Tok # "import"
IsValueGroup(d) == d.kind = "GenDecl" /\ d.Tok \in {"var", "const"}
IsTypeGroup(d) == d.kind = "GenDecl" /\ d.Tok = "type"

HasDecl(tree, pos) == \E i \in DeclIdx(tree) : tree.Decls[i].Pos = pos

HasSpec(tree, pos) ==
    \E i \in DeclIdx(tree) : \E j \in SpecIdx(tree.Decls[i]) :
        tree.Decls[i].Specs[j].Pos = pos

InTable(name) == key(f0, Ident(name)) \in DOMAIN WillPrune

MatchedFunc(d) == d.kind = "FuncDecl" /\ key(f0, d) \in DOMAIN WillPrune
MatchedType(s) == s.kind = "TypeSpec" /\ key(f0, s) \in DOMAIN WillPrune

NamesMatched(s) == {k \in 1..Len(s.Names) : InTable(s.Names[k])}

PartlyMatched(s) ==
    s.kind = "ValueSpec" /\ NamesMatched(s) # {} /\ NamesMatched(s) # 1..Len(s.Names)

FullyMatched(s) ==
    s.kind = "ValueSpec" /\ NamesMatched(s) = 1..Len(s.Names)

\* C4: after Prune, every top-level function, method and type spec of the
\* tree whose Symbol Key is in the table is gone from the tree, and Prune
\* returned true.
PruneRemovesMatched ==
    op = "Prune" =>
        /\ \A i \in DeclIdx(f0) :
              MatchedFunc(f0.Decls[i]) =>
                  ~HasDecl(f, f0.Decls[i].Pos) /\ ret = TRUE
        /\ \A i \in DeclIdx(f0) : \A j \in SpecIdx(f0.Decls[i]) :
              (IsTypeGroup(f0.Decls[i]) /\ MatchedType(f0.Decls[i].Specs[j])) =>
                  ~HasSpec(f, f0.Decls[i].Specs[j].Pos) /\ ret = TRUE

\* Two adjacent matched declarations, one of them a method, and a matched
\* type spec have been pruned.
PruneRemovesMatchedWitness ==
    /\ op = "Prune"
    /\ Len(f0.Decls) = 2
    /\ \/ /\ MatchedFunc(f0.Decls[1]) /\ f0.Decls[1].Recv # NoRecv
          /\ IsTypeGroup(f0.Decls[2]) /\ Len(f0.Decls[2].Specs) = 2
          /\ MatchedType(f0.Decls[2].Specs[1])
       \/ /\ MatchedFunc(f0.Decls[1]) /\ MatchedFunc(f0.Decls[2])
    /\ f.Decls # f0.Decls

\* C5: a var/const spec in which some but not all names are in the table is
\* kept, with exactly the matched names replaced by `_` in place, the other
\* names and the initializers unchanged, and the same number of name slots.
PartialSpecKeepsArity ==
    op = "Prune" =>
        \A i \in DeclIdx(f0) : \A j \in SpecIdx(f0.Decls[i]) :
            LET s == f0.Decls[i].Specs[j] IN
            (IsValueGroup(f0.Decls[i]) /\ PartlyMatched(s)) =>
                \E i2 \in DeclIdx(f) : \E j2 \in SpecIdx(f.Decls[i2]) :
                    LET t == f.Decls[i2].Specs[j2] IN
                    /\ t.Pos = s.Pos
                    /\ f.Decls[i2].Pos = f0.Decls[i].Pos
                    /\ Len(t.Names) = Len(s.Names)
                    /\ \A k \in 1..Len(s.Names) :
                          t.Names[k] = IF InTable(s.Names[k]) THEN "_" ELSE s.Names[k]
                    /\ t.Values = s.Values

\* `var V1, V2 = f()` has been pruned with only one of its names in the table.
PartialSpecKeepsArityWitness ==
    /\ op = "Prune"
    /\ \E i \in DeclIdx(f0) : \E j \in SpecIdx(f0.Decls[i]) :
          /\ IsValueGroup(f0.Decls[i])
          /\ PartlyMatched(f0.Decls[i].Specs[j])
          /\ Len(f0.Decls[i].Specs[j].Names) = 2
          /\ HasSpec(f, f0.Decls[i].Specs[j].Pos)

\* C6: a var/const spec all of whose names are in the table is removed as a
\* whole; no spec of the tree after Prune has that position.
FullSpecDeleted ==
    op = "Prune" =>
        \A i \in DeclIdx(f0) : \A j \in SpecIdx(f0.Decls[i]) :
            (IsValueGroup(f0.Decls[i]) /\ FullyMatched(f0.Decls[i].Specs[j])) =>
                ~HasSpec(f, f0.Decls[i].Specs[j].Pos)

\* `var V1, V2 = f()` has been pruned with both names in the table: the spec
\* is gone and two placeholders were appended.
FullSpecDeletedWitness ==
    /\ op = "Prune"
    /\ \E i \in DeclIdx(f0) : \E j \in SpecIdx(f0.Decls[i]) :
          /\ IsValueGroup(f0.Decls[i])
          /\ FullyMatched(f0.Decls[i].Specs[j])
          /\ Len(f0.Decls[i].Specs[j].Names) = 2
          /\ ~HasSpec(f, f0.Decls[i].Specs[j].Pos)
    /\ Len(f.Comments) = Len(f0.Comments) + 2

PlaceholdersAt(tree, slash) ==
    {k \in 1..Len(tree.Comments) : tree.Comments[k].Slash = slash}

\* C7: after Prune with a non-empty table no var, const or type group of the
\* tree has zero specs; a group whose specs were all pruned is gone from
\* f.Decls and the placeholder comments of its members are in f.Comments.
NoEmptyGroupAfterPrune ==
    (op = "Prune" /\ DOMAIN WillPrune # {}) =>
        /\ \A i \in DeclIdx(f) : IsGroup(f.Decls[i]) => Len(f.Decls[i].Specs) > 0
        /\ \A i \in DeclIdx(f0) :
              LET d == f0.Decls[i] IN
              (/\ IsGroup(d)
               /\ \A j \in SpecIdx(d) : FullyMatched(d.Specs[j]) \/ MatchedType(d.Specs[j]))
              => /\ ~HasDecl(f, d.Pos)
                 /\ Cardinality(PlaceholdersAt(f, d.Pos - 1))
                      >= Cardinality(PlaceholdersAt(f0, d.Pos - 1))
                           + Len(SpecNames(d.Specs))

\* A group of two specs has lost both of them and has been removed.
NoEmptyGroupAfterPruneWitness ==
    /\ op = "Prune"
    /\ \E i \in DeclIdx(f0) :
          LET d == f0.Decls[i] IN
          /\ IsGroup(d) /\ Len(d.Specs) = 2
          /\ \A j \in SpecIdx(d) : FullyMatched(d.Specs[j]) \/ MatchedType(d.Specs[j])
          /\ ~HasDecl(f, d.Pos)
          /\ Len(f.Comments) >= 2

\* C8: Prune returns true if and only if it modified the tree.
PruneReturnExact ==
    op = "Prune" => (ret = TRUE <=> f # f0)

\* C9: with an empty table Prune returns false, visits no declaration and
\* leaves declarations and comments as they were.
EmptyTableFastPath ==
    (op = "Prune" /\ DOMAIN WillPrune = {}) =>
        /\ ret = FALSE
        /\ visited = 0
        /\ f.Decls = f0.Decls
        /\ f.Comments = f0.Comments

\* Prune ran with an empty table on a file holding an empty group and a
\* function.
EmptyTableFastPathWitness ==
    /\ op = "Prune"
    /\ DOMAIN WillPrune = {}
    /\ \E i \in DeclIdx(f) : IsGroup(f.Decls[i]) /\ Len(f.Decls[i].Specs) = 0
    /\ \E i \in DeclIdx(f) : f.Decls[i].kind = "FuncDecl"

-----------------------------------------------------------------------------
(* Properties of the transformer chain and of processSource *)

Existed(d, p) == d[p].kind # "absent"

\* C1: a chained transformer invokes its left and then its right component
\* exactly once each, whatever the left one returns, and returns the
\* disjunction of the two results.
ChainInvokesBoth ==
    (op = "processSource" /\ io.loaded /\ Len(io.transform) = 2) =>
        /\ Len(calls) = 2
        /\ calls[1].name = io.transform[1]
        /\ calls[2].name = io.transform[2]
        /\ io.modified = (calls[1].ret \/ calls[2].ret)

\* C2: when writePath exists before the call, processSource fails with a
\* destination-exists error and leaves the file system as it was, on the
\* serialize path and on the copy path of either input file system.  (Calls
\* that fail because the input cannot be reopened or the destination cannot
\* be created are left aside.)
NeverOverwrites ==
    (/\ op = "processSource" /\ io.loaded
     /\ Existed(disk0, io.writePath)
     /\ ret \notin {"open", "create"}) =>
        /\ ret = "exists"
        /\ disk = disk0

\* C3: when processSource returns an error, no file is at writePath that was
\* not there before the call.
NoPartialOutput ==
    (op = "processSource" /\ ret # "nil" /\ ~Existed(disk0, io.writePath)) =>
        ~Existed(disk, io.writePath)

\* C10: when the transform returns false and processSource succeeds, reading
\* writePath gives the bytes the input had at loadPath, and the tree was not
\* serialized.
UnchangedCopiedVerbatim ==
    (op = "processSource" /\ io.loaded /\ ~io.modified /\ ret = "nil") =>
        /\ ReadFile(disk, io.writePath) = io.input
        /\ io.input.form = "raw" /\ io.input.len = "full"
        /\ ~io.serialized

\* A file from the virtual file system went through Prune with a table that
\* matches none of its symbols, and was copied.
UnchangedCopiedVerbatimWitness ==
    /\ op = "processSource"
    /\ ret = "nil"
    /\ ~io.modified
    /\ io.loadFS = "vfs"
    /\ io.transform = <<"Prune">>
    /\ DOMAIN WillPrune # {}
    /\ disk[io.writePath].kind = "file"

-----------------------------------------------------------------------------
(* The import redirector on its own *)

MaxApply == 2   \* applications of one transformer to one tree

ImportAliases == {<<>>, <<"sync">>, <<"stdsync">>}

\* "sync", the raw literal of sync, "\x73ync", "other/sync" and the nosync
\* path itself.
ImportPaths ==
    {Lit("\"", "sync"), Lit(BackQuote, "sync"), Lit("\"", "\\x73ync"),
     Lit("\"", "other/sync"), NosyncPath}

ImportSpecPool == {ImportSpec(a, p) : a \in ImportAliases, p \in ImportPaths}

\* One import declaration, alone or followed by a function, or two import
\* declarations of one spec each.
ImportSources ==
    {<<GenDecl("import", ss)>> \o rest :
        ss \in SeqsUpTo(ImportSpecPool, 0, MaxSpecs),
        rest \in {<<>>, <<FuncDecl("F", NoRecv)>>}}
    \cup {<<GenDecl("import", <<s1>>), GenDecl("import", <<s2>>)>> :
            s1 \in ImportSpecPool, s2 \in ImportSpecPool}

InitNosync ==
    /\ FileSet = "fset"
    /\ WillPrune = <<>>
    /\ f \in {ParseFile("x", src, 0) : src \in ImportSources}
    /\ f0 = f
    /\ ret = FALSE
    /\ op = "ParseFile"
    /\ visited = 0
    /\ calls = <<>>
    /\ disk = NoDisk
    /\ disk0 = NoDisk
    /\ io = NoIO
    /\ ncalls = 0
    /\ procs = NoProcs

\* nosync(fset, f), applied to the tree the previous call left.
DoNosync ==
    /\ ncalls < MaxApply
    /\ ncalls' = ncalls + 1
    /\ \E r \in {nosync(f)} :
        /\ f' = r.f
        /\ ret' = r.ret
    /\ f0' = f
    /\ op' = "nosync"
    /\ calls' = Append(calls, ret')
    /\ UNCHANGED <<FileSet, WillPrune, visited, disk, disk0, io, procs>>

NextNosync == DoNosync

SpecNosync == InitNosync /\ [][NextNosync]_vars

-----------------------------------------------------------------------------
(* Properties of nosync *)

IsImport(d) == d.kind = "GenDecl" /\ d.Tok = "import"

\* The import spec's path as the compiler reads it.
ImportPathOf(s) == Unquote(s.Path)

\* C11: nosync returns true exactly when some import spec of the file had
\* the path sync; every import spec with another path, and every other
\* declaration, is as it was; a second application to the same tree returns
\* false and changes nothing.
NosyncReportsExactly ==
    op = "nosync" =>
        /\ ret = (\E i \in DeclIdx(f0) : IsImport(f0.Decls[i]) /\
                    \E j \in SpecIdx(f0.Decls[i]) :
                        ImportPathOf(f0.Decls[i].Specs[j]) = "sync")
        /\ Len(f.Decls) = Len(f0.Decls)
        /\ f.Comments = f0.Comments
        /\ \A i \in DeclIdx(f0) :
              IF IsImport(f0.Decls[i])
              THEN /\ Len(f.Decls[i].Specs) = Len(f0.Decls[i].Specs)
                   /\ \A j \in SpecIdx(f0.Decls[i]) :
                         ImportPathOf(f0.Decls[i].Specs[j]) # "sync" =>
                             f.Decls[i].Specs[j] = f0.Decls[i].Specs[j]
              ELSE f.Decls[i] = f0.Decls[i]
        /\ (ncalls = 2 => (ret = FALSE /\ f = f0))

\* A second application, after a first one that rewrote an import, next to an
\* import that is only named sync and one that already has the nosync path.
NosyncReportsExactlyWitness ==
    /\ op = "nosync" /\ ncalls = 2 /\ calls = <<TRUE, FALSE>>
    /\ \E i \in DeclIdx(f) : \E j \in SpecIdx(f.Decls[i]) :
          /\ f.Decls[i].Specs[j].Names = <<"sync">>
          /\ f.Decls[i].Specs[j].Path = Lit("\"", "other/sync")

\* C12: every import spec nosync rewrote has the nosync path and a name: sync
\* when it had none, the name it had otherwise.
NosyncKeepsAlias ==
    op = "nosync" =>
        \A i \in DeclIdx(f0) : \A j \in SpecIdx(f0.Decls[i]) :
            (IsImport(f0.Decls[i]) /\ f.Decls[i].Specs[j] # f0.Decls[i].Specs[j]) =>
                /\ f.Decls[i].Specs[j].Path = NosyncPath
                /\ f.Decls[i].Specs[j].Names =
                       IF f0.Decls[i].Specs[j].Names = <<>>
                       THEN <<"sync">>
                       ELSE f0.Decls[i].Specs[j].Names
                /\ f.Decls[i].Specs[j].Names # <<>>

\* One call rewrote an import without a name and one named stdsync.
NosyncKeepsAliasWitness ==
    /\ op = "nosync" /\ ncalls = 1 /\ ret = TRUE
    /\ \E i \in DeclIdx(f0) : \E j, k \in SpecIdx(f0.Decls[i]) :
          /\ f0.Decls[i].Specs[j] = [ImportSpec(<<>>, Lit("\"", "sync")) EXCEPT
                                        !.Pos = f0.Decls[i].Specs[j].Pos]
          /\ f.Decls[i].Specs[j].Names = <<"sync">>
          /\ f.Decls[i].Specs[j].Path = NosyncPath
          /\ f0.Decls[i].Specs[k].Names = <<"stdsync">>
          /\ ImportPathOf(f0.Decls[i].Specs[k]) = "sync"
          /\ f.Decls[i].Specs[k].Names = <<"stdsync">>
          /\ f.Decls[i].Specs[k].Path = NosyncPath

-----------------------------------------------------------------------------
(* Collecting the overlay, then pruning the upstream *)

\* func F() { var V1 = 1 }, func init() {}, func (T) M() {}, func (*T) M() {}
OverlayFuncs ==
    {[FuncDecl("F", NoRecv) EXCEPT
         !.Body = BlockStmt(<<DeclStmt(GenDecl("var", <<ValueSpec(<<"V1">>, <<"1">>)>>))>>)],
     FuncDecl("init", NoRecv)} \cup {d \in FuncDecls : d.Recv # NoRecv}

\* type T struct{ V2 int }, type U = T, type I interface{ M() }
OverlayTypeSpecs ==
    {[TypeSpec("T") EXCEPT !.Type = StructType(<<Field("V2")>>)],
     [TypeSpec("U") EXCEPT !.Type = NamedType("T"), !.Assign = TRUE],
     [TypeSpec("I") EXCEPT !.Type = InterfaceType(<<Field("M")>>)]}

\* var V1, V2 = f() and var _ = 1
OverlayValueSpecs == {ValueSpec(<<"V1", "V2">>, <<"f()">>), ValueSpec(<<"_">>, <<"1">>)}

\* The blank identifier and init may be declared any number of times.
Repeatable == {"_", "init"}

WellFormed(names) ==
    \A i, j \in 1..Len(names) : (i # j /\ names[i] = names[j]) => names[i] \in Repeatable

OverlayPool ==
    OverlayFuncs
    \cup {GenDecl("type", <<t>>) : t \in OverlayTypeSpecs}
    \cup {GenDecl("var", ss) :
            ss \in {x \in SeqsUpTo(OverlayValueSpecs, 1, MaxSpecs) : WellFormed(SpecNames(x))}}
    \cup {GenDecl("const", <<ValueSpec(<<"V1">>, <<"1">>)>>),
          GenDecl("import", <<ImportSpec(<<>>, Lit("\"", "sync"))>>)}

OverlaySources ==
    {s \in SeqsUpTo(OverlayPool, 0, MaxDecls) :
        WellFormed(Flatten([i \in 1..Len(s) |-> DeclSymbols(s[i])]))}

\* The overlay files are registered in the FileSet after the upstream one.
OverlayBase == 1000

OverlayTrees == {ParseFile("x", s, OverlayBase) : s \in OverlaySources}

\* The overlay files as parsed when n files were parsed before.
OverlayTreesAfter(n) ==
    {ParseFile("x", s, OverlayBase + n * FileSize) : s \in OverlaySources}

\* var V1, V2 = f(), var _, V2 = f() and type T int
UpstreamGroups ==
    {GenDecl("var", <<ValueSpec(<<"V1", "V2">>, <<"f()">>)>>),
     GenDecl("var", <<ValueSpec(<<"_", "V2">>, <<"f()">>)>>),
     GenDecl("type", <<TypeSpec("T")>>)}

\* Upstream files: functions and methods with either receiver form, or one
\* var or type declaration.
UpstreamSources ==
    {s \in SeqsUpTo(FuncDecls \cup {FuncDecl("init", NoRecv)}, 1, MaxDecls) :
        WellFormed(Flatten([i \in 1..Len(s) |-> DeclSymbols(s[i])]))}
    \cup {<<d>> : d \in UpstreamGroups}

UpstreamTrees == {ParseFile("x", s, 0) : s \in UpstreamSources}

\* A fresh SymbolFilter: WillPrune is the nil map.
InitOverlay ==
    /\ FileSet = "fset"
    /\ WillPrune = <<>>
    /\ f = NoTree
    /\ f0 = NoTree
    /\ ret = FALSE
    /\ op = "new"
    /\ visited = 0
    /\ calls = <<>>
    /\ disk = NoDisk
    /\ disk0 = NoDisk
    /\ io = NoIO
    /\ ncalls = 0
    /\ procs = NoProcs

\* sf.Collect(f) on an overlay file; calls keeps the files collected so far.
DoCollect ==
    /\ op \in {"new", "Collect"}
    /\ ncalls < MaxApply
    /\ ncalls' = ncalls + 1
    /\ \E tree \in OverlayTreesAfter(ncalls) :
        /\ f0' = tree
        /\ calls' = Append(calls, tree)
        /\ \E r \in {Collect(SymbolFilter(FileSet, WillPrune), tree)} :
            /\ WillPrune' = r.sf.WillPrune
            /\ f' = r.f
            /\ ret' = r.ret
    /\ op' = "Collect"
    /\ UNCHANGED <<FileSet, visited, disk, disk0, io, procs>>

\* sf.Prune(f) on an upstream file, with the table collected so far.
PruneUpstream ==
    /\ op \in {"new", "Collect"}
    /\ \E tree \in UpstreamTrees :
        /\ f0' = tree
        /\ \E r \in {Prune(SymbolFilter(FileSet, WillPrune), tree)} :
            /\ f' = r.f
            /\ ret' = r.ret
            /\ visited' = r.visited
            /\ WillPrune' = r.sf.WillPrune
    /\ op' = "Prune"
    /\ UNCHANGED <<FileSet, calls, disk, disk0, io, ncalls, procs>>

\* sf.Prune(f) once more, on the tree the first call left.
PruneAgain ==
    /\ op = "Prune"
    /\ \E r \in {Prune(SymbolFilter(FileSet, WillPrune), f)} :
        /\ f' = r.f
        /\ ret' = r.ret
        /\ visited' = r.visited
        /\ WillPrune' = r.sf.WillPrune
    /\ f0' = f
    /\ op' = "PruneAgain"
    /\ UNCHANGED <<FileSet, calls, disk, disk0, io, ncalls, procs>>

NextOverlay == DoCollect \/ PruneUpstream \/ PruneAgain

SpecOverlay == InitOverlay /\ [][NextOverlay]_vars

-----------------------------------------------------------------------------
(* Properties of Collect and of the Symbol Keys *)

IsMethod(d) == d.kind = "FuncDecl" /\ d.Recv # NoRecv

\* The top-level symbols a file declares, read off the declaration list:
\* where each is, the name it is known by in the package and its position.
FuncSymbols(file) ==
    {[at |-> <<i, 0, 0>>,
      name |-> IF IsMethod(file.Decls[i])
               THEN file.Decls[i].Recv[1].ident \o "." \o file.Decls[i].Name
               ELSE file.Decls[i].Name,
      pos |-> file.Decls[i].Pos] :
        i \in {n \in DeclIdx(file) : file.Decls[n].kind = "FuncDecl"}}

SpecSymbols(file, i) ==
    UNION {{[at |-> <<i, j, k>>,
             name |-> file.Decls[i].Specs[j].Names[k],
             pos |-> file.Decls[i].Specs[j].Pos + (k - 1)] :
                k \in 1..Len(file.Decls[i].Specs[j].Names)} :
           j \in SpecIdx(file.Decls[i])}

Symbols(file) ==
    FuncSymbols(file) \cup
    UNION {SpecSymbols(file, i) : i \in {n \in DeclIdx(file) : IsGroup(file.Decls[n])}}

SymbolKeys(file) == {file.Name \o "." \o s.name : s \in Symbols(file)}

\* C13: Collect returns false and leaves the declarations and the comments
\* of the tree as they were.
CollectIsPure == op = "Collect" => (ret = FALSE /\ f = f0)

\* Collect has recorded the symbols of a file with declarations.
CollectIsPureWitness ==
    /\ op = "Collect" /\ Len(f0.Decls) >= 2
    /\ Cardinality(DOMAIN WillPrune) >= 2
    /\ f = f0

\* C14: after Collect the table holds exactly the keys of the top-level
\* functions, methods, type specs and var/const names of the files collected
\* so far, each of this file's keys at the position of a declaration of this
\* file; imports, struct fields, interface methods and declarations in
\* function bodies give no key.
CollectExactlyTopLevel ==
    op = "Collect" =>
        /\ DOMAIN WillPrune = UNION {SymbolKeys(calls[n]) : n \in 1..Len(calls)}
        /\ \A s \in Symbols(f0) :
              WillPrune[f0.Name \o "." \o s.name] \in
                  {t.pos : t \in {u \in Symbols(f0) : u.name = s.name}}

\* Collected: func F() { var V1 = 1 } and type T struct{ V2 int }; the table
\* has x.F and x.T only.
CollectExactlyTopLevelWitness ==
    /\ op = "Collect" /\ ncalls = 1
    /\ \E i, j \in DeclIdx(f0) :
          /\ f0.Decls[i].kind = "FuncDecl" /\ f0.Decls[i].Body.List # <<>>
          /\ IsTypeGroup(f0.Decls[j])
          /\ f0.Decls[j].Specs[1].Type.kind = "StructType"
    /\ DOMAIN WillPrune = {"x.F", "x.T"}

\* The key of a method, with the receiver's base type name.
MethodKey(file, d) == file.Name \o "." \o d.Recv[1].ident \o "." \o d.Name

\* C15: a method is collected under pkg.T.M whether its receiver is T or *T,
\* and Prune removes a method whose pkg.T.M is in the table whether its
\* receiver is T or *T.
MethodKeysIgnorePointer ==
    /\ op = "Collect" =>
          \A i \in DeclIdx(f0) :
              IsMethod(f0.Decls[i]) => MethodKey(f0, f0.Decls[i]) \in DOMAIN WillPrune
    /\ op = "Prune" =>
          \A i \in DeclIdx(f0) :
              (IsMethod(f0.Decls[i]) /\ MethodKey(f0, f0.Decls[i]) \in DOMAIN WillPrune)
                  => ~HasDecl(f, f0.Decls[i].Pos)

\* The overlay declared func (T) M, the upstream func (*T) M, and Prune
\* removed it.
MethodKeysIgnorePointerWitness ==
    /\ op = "Prune" /\ ret = TRUE /\ Len(calls) = 1
    /\ \E i \in DeclIdx(calls[1]) :
          IsMethod(calls[1].Decls[i]) /\ ~calls[1].Decls[i].Recv[1].star
    /\ \A i \in DeclIdx(calls[1]) : calls[1].Decls[i].kind = "FuncDecl"
    /\ \E i \in DeclIdx(f0) :
          /\ IsMethod(f0.Decls[i]) /\ f0.Decls[i].Recv[1].star
          /\ ~HasDecl(f, f0.Decls[i].Pos)

\* The node key is computed for, for each top-level symbol of a file.
KeyedNodes(file) ==
    {[at |-> <<i, 0, 0>>, node |-> file.Decls[i]] :
        i \in {n \in DeclIdx(file) : file.Decls[n].kind = "FuncDecl"}}
    \cup UNION {UNION {{[at |-> <<i, j, k>>,
                         node |-> IF file.Decls[i].Specs[j].kind = "TypeSpec"
                                  THEN file.Decls[i].Specs[j]
                                  ELSE Ident(file.Decls[i].Specs[j].Names[k])] :
                            k \in 1..Len(file.Decls[i].Specs[j].Names)} :
                       j \in SpecIdx(file.Decls[i])} :
                i \in {n \in DeclIdx(file) : IsGroup(file.Decls[n])}}

\* C16: any two distinct top-level declarations of a file of a well-formed
\* package, blank bindings and init functions included, have distinct keys.
KeysAreUnique ==
    op \in {"Collect", "Prune"} =>
        \A a, b \in KeyedNodes(f0) : a.at # b.at => key(f0, a.node) # key(f0, b.node)

-----------------------------------------------------------------------------
(* Properties of the placeholder comments *)

\* The top-level symbols of the tree handed to Prune whose key is in the table.
MatchedSymbols == {s \in Symbols(f0) : (f0.Name \o "." \o s.name) \in DOMAIN WillPrune}

\* The comment c stands for the symbol s: it has the keyword of the pruned
\* declaration (func, type, or the token of the var/const group), the name
\* (with the receiver, for a method) and the replacement position pos.
Describes(c, s, pos) ==
    /\ c.Text.repl = pos
    /\ IF s.at[2] = 0
       THEN /\ c.Text.tok = "func"
            /\ c.Text.name = f0.Decls[s.at[1]].Name
            /\ c.Text.recv = f0.Decls[s.at[1]].Recv
       ELSE /\ c.Text.tok = f0.Decls[s.at[1]].Tok
            /\ c.Text.name = s.name
            /\ c.Text.recv = NoRecv

Appended == (Len(f0.Comments) + 1)..Len(f.Comments)

-----------------------------------------------------------------------------
(* Two processSource calls running concurrently on one writePath *)

Workers == {1, 2}

\* What a call does with its output once the transform has returned:
\* writeAST, copyUnmodified from a virtual file system (os.Create, io.Copy)
\* or copyUnmodified from http.Dir (os.Symlink).
Outputs == {"writeAST", "copy", "symlink"}

\* The first system call of each.
FirstStep(out) ==
    CASE out = "writeAST" -> "Stat"
      [] out = "copy"     -> "Create"
      [] out = "symlink"  -> "Symlink"

\* The tree a.go parses to, after nosync has rewritten its import.
ModifiedTree == nosync(Parse(Bytes("a.go")).tree).f

\* The bytes a call puts into the file it created.
Output(out) ==
    IF out = "writeAST" THEN Data("fmt", "", ModifiedTree, "full") ELSE Bytes("a.go")

ConcWritePath == CHOOSE p \in WritePaths : TRUE

InitConc ==
    /\ FileSet = "fset"
    /\ WillPrune = <<>>
    /\ f = NoTree
    /\ f0 = NoTree
    /\ ret = "nil"
    /\ op = "go"
    /\ visited = 0
    /\ calls = <<>>
    /\ disk = InitDisk("free")
    /\ disk0 = disk
    /\ io = NoIO
    /\ ncalls = 0
    /\ procs \in {[w \in Workers |->
                     [out |-> outs[w], pc |-> FirstStep(outs[w]), err |-> "nil",
                      wrote |-> FALSE]] : outs \in [Workers -> Outputs]}

ConcFrame == UNCHANGED <<FileSet, WillPrune, f, f0, ret, visited, io, ncalls>>

\* writeAST: os.Stat(path); the call returns when the file exists.
StatStep(w) ==
    /\ procs[w].pc = "Stat"
    /\ procs' = [procs EXCEPT ![w].pc = IF Exists(disk, ConcWritePath) THEN "done" ELSE "Create",
                              ![w].err = IF Exists(disk, ConcWritePath) THEN "exists" ELSE "nil"]
    /\ disk' = disk
    /\ disk0' = disk
    /\ op' = "Stat"
    /\ calls' = Append(calls, w)
    /\ ConcFrame

\* os.Create(path) of writeAST and of copyUnmodified: creates the file or
\* truncates the one that is there.
CreateStep(w) ==
    /\ procs[w].pc = "Create"
    /\ procs' = [procs EXCEPT ![w].pc = "Write", ![w].wrote = TRUE]
    /\ disk' = Create(disk, ConcWritePath)
    /\ disk0' = disk
    /\ op' = "Create"
    /\ calls' = Append(calls, w)
    /\ ConcFrame

\* format.Node and the deferred Flush of writeAST, io.Copy of copyUnmodified:
\* the bytes go through the handle os.Create returned.
WriteStep(w) ==
    /\ procs[w].pc = "Write"
    /\ procs' = [procs EXCEPT ![w].pc = "done"]
    /\ disk' = WriteTo(disk, ConcWritePath, Output(procs[w].out))
    /\ disk0' = disk
    /\ op' = "Write"
    /\ calls' = Append(calls, w)
    /\ ConcFrame

\* os.Symlink of copyUnmodified: fails when something is at the path.
SymlinkStep(w) ==
    /\ procs[w].pc = "Symlink"
    /\ procs' = [procs EXCEPT ![w].pc = "done",
                              ![w].err = IF disk[ConcWritePath].kind # "absent"
                                         THEN "exists" ELSE "nil",
                              ![w].wrote = disk[ConcWritePath].kind = "absent"]
    /\ disk' = IF disk[ConcWritePath].kind # "absent"
               THEN disk
               ELSE [disk EXCEPT ![ConcWritePath] = Symlink(RealPath("a.go"))]
    /\ disk0' = disk
    /\ op' = "Symlink"
    /\ calls' = Append(calls, w)
    /\ ConcFrame

NextConc ==
    \E w \in Workers : StatStep(w) \/ CreateStep(w) \/ WriteStep(w) \/ SymlinkStep(w)

SpecConc == InitConc /\ [][NextConc]_vars

\* C18: of two concurrent calls on one writePath at most one ever creates,
\* truncates or writes the output (so what one call wrote is never truncated
\* or overwritten by the other), and when both have returned at most one of
\* them has returned without an error.
NoConcurrentOverwrite ==
    /\ Cardinality({w \in DOMAIN procs : procs[w].wrote}) <= 1
    /\ (\A w \in DOMAIN procs : procs[w].pc = "done") =>
           Cardinality({w \in DOMAIN procs : procs[w].err = "nil"}) <= 1

-----------------------------------------------------------------------------
(* Properties of Prune: what it leaves alone *)

Unmatched(name) == (f0.Name \o "." \o name) \notin DOMAIN WillPrune

\* The declaration of f0 at index i, found in f.
DeclKept(i) == \E i2 \in DeclIdx(f) : f.Decls[i2] = f0.Decls[i]

\* The spec j of the group i of f0, found in f in the same group; a value
\* spec may have had other names of it blanked.
SpecKept(i, j) ==
    \E i2 \in DeclIdx(f) : \E j2 \in SpecIdx(f.Decls[i2]) :
        /\ f.Decls[i2].Pos = f0.Decls[i].Pos
        /\ f.Decls[i2].Tok = f0.Decls[i].Tok
        /\ f.Decls[i2].Specs[j2].Pos = f0.Decls[i].Specs[j].Pos
        /\ f.Decls[i2].Specs[j2].Values = f0.Decls[i].Specs[j].Values
        /\ Len(f.Decls[i2].Specs[j2].Names) = Len(f0.Decls[i].Specs[j].Names)
        /\ \A k \in 1..Len(f0.Decls[i].Specs[j].Names) :
              Unmatched(f0.Decls[i].Specs[j].Names[k]) =>
                  f.Decls[i2].Specs[j2].Names[k] = f0.Decls[i].Specs[j].Names[k]

\* The declarations and the specs of a tree are in source order.
InSourceOrder(tree) ==
    /\ \A i, i2 \in DeclIdx(tree) : i < i2 => tree.Decls[i].Pos < tree.Decls[i2].Pos
    /\ \A i \in DeclIdx(tree) : \A j, j2 \in SpecIdx(tree.Decls[i]) :
          j < j2 => tree.Decls[i].Specs[j].Pos < tree.Decls[i].Specs[j2].Pos

\* C19: after Prune every function, method, type spec and var/const name
\* whose key is not in the table, and every import declaration, is in the
\* tree as it was, the survivors are in their original order, and a table
\* that matches nothing leaves the tree as it was.
PruneKeepsUnmatched ==
    op = "Prune" =>
        /\ \A i \in DeclIdx(f0) :
              /\ (f0.Decls[i].kind = "FuncDecl" /\ Unmatched(funcName(f0.Decls[i])))
                    => DeclKept(i)
              /\ IsImport(f0.Decls[i]) => DeclKept(i)
              /\ IsGroup(f0.Decls[i]) =>
                    \A j \in SpecIdx(f0.Decls[i]) :
                        (\E k \in 1..Len(f0.Decls[i].Specs[j].Names) :
                            Unmatched(f0.Decls[i].Specs[j].Names[k])) => SpecKept(i, j)
        /\ InSourceOrder(f)
        /\ MatchedSymbols = {} => f = f0

-----------------------------------------------------------------------------
(* Properties of processSource: failure to load *)

\* C20: when loadPath cannot be opened or its bytes do not parse,
\* processSource returns the load error, which names loadPath and wraps the
\* error of fs.Open or of the parser, no transformer is called and the file
\* system is as it was.
LoadFailureHasNoEffect ==
    (/\ op = "processSource"
     /\ \/ ~Open(disk0, io.loadFS, io.loadPath).ok
        \/ ~Parse(Open(disk0, io.loadFS, io.loadPath).data).ok) =>
        /\ ret = "load"
        /\ io.wrap.what = "load"
        /\ io.wrap.path = io.loadPath
        /\ io.wrap.cause = IF Open(disk0, io.loadFS, io.loadPath).ok THEN "parse" ELSE "open"
        /\ calls = <<>>
        /\ disk = disk0

\* bad.go was read from the virtual file system and did not parse; nothing
\* is at writePath.
LoadFailureHasNoEffectWitness ==
    /\ op = "processSource"
    /\ io.loadFS = "vfs" /\ io.loadPath = "bad.go"
    /\ ret = "load" /\ io.wrap = Wrap("load", "bad.go", "parse")
    /\ ~Existed(disk, io.writePath)

-----------------------------------------------------------------------------
(* Properties of the Symbol Table over several calls *)

\* The files collected so far that declare the key.
Declaring(k) == {n \in 1..Len(calls) : k \in SymbolKeys(calls[n])}

\* The most recent of them.
LastDeclaring(k) == CHOOSE n \in Declaring(k) : \A m \in Declaring(k) : m <= n

\* The positions at which a file declares the key.
DeclaredAt(file, k) ==
    {s.pos : s \in {t \in Symbols(file) : file.Name \o "." \o t.name = k}}

\* The last of them in source order.
LastDeclaredAt(file, k) ==
    CHOOSE p \in DeclaredAt(file, k) : \A q \in DeclaredAt(file, k) : q <= p

\* C21: after any sequence of Collect calls the keys of the table are the
\* keys of all the files collected, each at the position of its last
\* declaration in the most recent file that declares it; Prune leaves the
\* table as the Collect calls made it.
TableAccumulates ==
    op \in {"Collect", "Prune", "PruneAgain"} =>
        /\ DOMAIN WillPrune = UNION {SymbolKeys(calls[n]) : n \in 1..Len(calls)}
        /\ \A k \in DOMAIN WillPrune :
              WillPrune[k] = LastDeclaredAt(calls[LastDeclaring(k)], k)

\* Two files that declare the same key were collected, the second one
\* declares it twice, and Prune has removed a declaration with that table.
TableAccumulatesWitness ==
    /\ op = "Prune" /\ ret = TRUE /\ Len(calls) = 2
    /\ \E k \in SymbolKeys(calls[1]) \cap SymbolKeys(calls[2]) :
          /\ Cardinality(DeclaredAt(calls[2], k)) = 2
          /\ WillPrune[k] >= OverlayBase + FileSize
    /\ SymbolKeys(calls[1]) \ SymbolKeys(calls[2]) # {}

\* C22: after Prune no function, method, type spec or var/const name that is
\* left at the top level of the tree has a key of the table.
NoConflictAfterPrune ==
    op = "Prune" => SymbolKeys(f) \cap DOMAIN WillPrune = {}

\* C23: Prune applied a second time, with the same table, to the tree it
\* has pruned returns false and leaves the declarations and the comments as
\* they were.
PruneIsIdempotent ==
    op = "PruneAgain" => (ret = FALSE /\ f = f0)

====
